---- MODULE Spec2Model ----
(***************************************************************************)
(* Model of main.py: synchronisation of the options of a JIRA (CM4J)       *)
(* custom field with a list of options read from files.                    *)
(*                                                                         *)
(* Strings are sequences of code points, so that Python's comparison of    *)
(* str values, str.strip() and str(int) are computed and not assumed.      *)
(* The remote field is the list of option records that the endpoint        *)
(* returns under data[0].context.values.                                   *)
(***************************************************************************)
EXTENDS Integers, Sequences, FiniteSets, TLC

VARIABLES
    remote,                \* the option list held by JIRA, in list order
    static_opts,           \* --static-options
    input,                 \* the raw lines fileinput yields
    dry_run,               \* --dry-run
    pc,                    \* position of the process in main()
    current_options_json,  \* main's snapshot of the remote list
    option_list,           \* main's option_list (static options, then lines)
    missing,               \* main's missing
    additions,             \* main's additions
    idx,                   \* index of the running loop (1-based)
    opt_id,                \* main's opt_id in the enable loop
    positions,             \* main's positions dictionary
    calls,                 \* the requests posted by the current run, in order
    run,                   \* number of the current invocation of the process
    failures,              \* transport failures so far
    flaky,                 \* whether the endpoint may answer with an error status
    start_remote,          \* the remote list when the current run started
    first_remote,          \* the remote list before the first run
    prev                   \* how the previous run ended

vars == <<remote, static_opts, input, dry_run, pc, current_options_json,
          option_list, missing, additions, idx, opt_id, positions, calls,
          run, failures, flaky, start_remote, first_remote, prev>>

---------------------------------------------------------------------------
(* Bounds of the model *)

MaxRemote == 2      \* options in the remote list before the first run
MaxLines == 2       \* lines of input
MaxRuns == 2        \* invocations of the process
MaxFailures == 1    \* remote calls that answer with an error status

---------------------------------------------------------------------------
(* Strings *)

A == <<65>>
B == <<66>>
C == <<67>>
Other == <<79, 116, 104, 101, 114>>
NL == <<10>>
SP == <<32>>

\* None, as returned by get_option_id when no option carries the value;
\* option ids are positive
None == 0

IsSpace(c) == c \in {9, 10, 11, 12, 13, 32}

RECURSIVE LStrip(_)
LStrip(s) ==
    IF s = <<>> THEN <<>>
    ELSE IF IsSpace(Head(s)) THEN LStrip(Tail(s)) ELSE s

RECURSIVE RStrip(_)
RStrip(s) ==
    IF s = <<>> THEN <<>>
    ELSE IF IsSpace(s[Len(s)]) THEN RStrip(SubSeq(s, 1, Len(s) - 1)) ELSE s

\* str.strip()
Strip(s) == RStrip(LStrip(s))

\* s < t on Python str: by code point, a proper prefix first
RECURSIVE StrLess(_, _)
StrLess(s, t) ==
    IF t = <<>> THEN FALSE
    ELSE IF s = <<>> THEN TRUE
    ELSE IF Head(s) # Head(t) THEN Head(s) < Head(t)
    ELSE StrLess(Tail(s), Tail(t))

\* str(n) for n >= 0
RECURSIVE Str(_)
Str(n) ==
    IF n < 10 THEN <<48 + n>>
    ELSE Str(n \div 10) \o <<48 + (n % 10)>>

\* the integer a decimal string denotes (the endpoint's reading of a position)
RECURSIVE ParseInt(_)
ParseInt(s) ==
    IF s = <<>> THEN 0
    ELSE 10 * ParseInt(SubSeq(s, 1, Len(s) - 1)) + (s[Len(s)] - 48)

Range(s) == {s[i] : i \in 1..Len(s)}

\* sorted(S) for a set of str
RECURSIVE SortedSet(_)
SortedSet(S) ==
    IF S = {} THEN <<>>
    ELSE LET m == CHOOSE x \in S : \A y \in S : ~StrLess(y, x)
         IN <<m>> \o SortedSet(S \ {m})

\* sorted(list, key=lambda opt: opt['value']): stable
RECURSIVE InsertByValue(_, _)
InsertByValue(s, o) ==
    IF s = <<>> THEN <<o>>
    ELSE IF StrLess(o.value, s[Len(s)].value)
         THEN InsertByValue(SubSeq(s, 1, Len(s) - 1), o) \o <<s[Len(s)]>>
         ELSE Append(s, o)

RECURSIVE SortedByValue(_)
SortedByValue(s) ==
    IF s = <<>> THEN <<>>
    ELSE InsertByValue(SortedByValue(SubSeq(s, 1, Len(s) - 1)), s[Len(s)])

SelectSeqNotIn(s, vals) == SelectSeq(s, LAMBDA o : o.value \notin vals)

---------------------------------------------------------------------------
(* The remote endpoint.  One endpoint serves the three operations the      *)
(* program posts; a request is the op parameter with the op's JSON fields. *)

OptionIds(r) == {r[i].optionId : i \in 1..Len(r)}

\* movePositions: the options named by the mapping come first, by ascending
\* position; the others follow in the order they had.  An empty mapping
\* leaves the list as it is (this is how the program lists the options).
RECURSIVE InsertByPosition(_, _, _)
InsertByPosition(s, o, pos) ==
    IF s = <<>> THEN <<o>>
    ELSE IF ParseInt(pos[o.optionId]) < ParseInt(pos[s[Len(s)].optionId])
         THEN InsertByPosition(SubSeq(s, 1, Len(s) - 1), o, pos) \o <<s[Len(s)]>>
         ELSE Append(s, o)

RECURSIVE SortedByPosition(_, _)
SortedByPosition(s, pos) ==
    IF s = <<>> THEN <<>>
    ELSE InsertByPosition(SortedByPosition(SubSeq(s, 1, Len(s) - 1), pos),
                          s[Len(s)], pos)

RemoteMove(r, pos) ==
    SortedByPosition(SelectSeq(r, LAMBDA o : o.optionId \in DOMAIN pos), pos)
        \o SelectSeq(r, LAMBDA o : o.optionId \notin DOMAIN pos)

\* updateEnabled: "isDisabled is inverted in the API": the option ends up
\* disabled when the request says isDisabled = false, enabled when true
RemoteUpdateEnabled(r, id, flag) ==
    [i \in 1..Len(r) |->
        IF r[i].optionId = id THEN [r[i] EXCEPT !.isDisabled = ~flag] ELSE r[i]]

\* a mutant of RemoteAdd: the endpoint reports success and adds nothing
C16_RemoteAdd(r, value, at) == r

\* addOption: a new, enabled option with a fresh id; where the endpoint puts
\* it in the list before the next movePositions is not fixed by the program:
\* at the head or at the tail
RemoteAdd(r, value, at) ==
    LET o == [optionId |-> Len(r) + 1, value |-> value, isDisabled |-> FALSE]
    IN SubSeq(r, 1, at - 1) \o <<o>> \o SubSeq(r, at, Len(r))

\* the lists the endpoint may hold after serving req successfully
RemoteResults(r, req) ==
    CASE req.op = "movePositions" -> {RemoteMove(r, req.positions)}
      [] req.op = "updateEnabled" ->
            IF req.optionId \in OptionIds(r)
            THEN {RemoteUpdateEnabled(r, req.optionId, req.isDisabled)}
            ELSE {}
      [] req.op = "addOption" -> {RemoteAdd(r, req.value, at) : at \in {1, Len(r) + 1}}
      [] OTHER -> {}

---------------------------------------------------------------------------
(* The program *)

\* read_input: the static options, then every non-blank line, stripped
RECURSIVE StrippedLines(_)
StrippedLines(lines) ==
    IF lines = <<>> THEN <<>>
    ELSE IF Strip(Head(lines)) # <<>>
         THEN <<Strip(Head(lines))>> \o StrippedLines(Tail(lines))
         ELSE StrippedLines(Tail(lines))

read_input(static, lines) == static \o StrippedLines(lines)

\* a mutant of NoOptionsRead: the check is for an empty list
C13_NoOptionsRead(static, lines) == Len(read_input(static, lines)) = 0

\* read_input's check: nothing was appended to the static options
NoOptionsRead(static, lines) == Len(read_input(static, lines)) = Len(static)

\* [x.get('value') for x in current_options_json]
ValuesOf(options) == [i \in 1..Len(options) |-> options[i].value]

\* a mutant of Missing: the operands of the difference are exchanged
C12_Missing(jira_options, file_options) == SortedSet(file_options \ jira_options)

\* a mutant of Missing: every fetched value is disabled, for the enable loop
\* to bring the desired ones back
C17_Missing(jira_options, file_options) == SortedSet(jira_options)

\* missing = list(sorted(jira_options - file_options))
Missing(jira_options, file_options) == SortedSet(jira_options \ file_options)

\* a mutant of Additions: every value of the file is added, present or not
C2_Additions(jira_options, file_options) == SortedSet(file_options)

\* a mutant of Additions: the values to disable, not the fetched values, are
\* taken out of the desired ones
C18_Additions(jira_options, file_options) ==
    SortedSet(file_options \ (jira_options \ file_options))

\* additions = list(sorted(file_options - jira_options))
Additions(jira_options, file_options) == SortedSet(file_options \ jira_options)

\* a mutant of get_option_id: the scan does not stop at the first match
C14_get_option_id(options, value) ==
    IF \E i \in 1..Len(options) : options[i].value = value
    THEN LET i == CHOOSE i \in 1..Len(options) :
                    /\ options[i].value = value
                    /\ \A j \in (i + 1)..Len(options) : options[j].value # value
         IN options[i].optionId
    ELSE None

\* the scan of get_option_id over a fetched list: the first option with the value
get_option_id(options, value) ==
    IF \E i \in 1..Len(options) : options[i].value = value
    THEN LET i == CHOOSE i \in 1..Len(options) :
                    /\ options[i].value = value
                    /\ \A j \in 1..(i - 1) : options[j].value # value
         IN options[i].optionId
    ELSE None

\* the requests
ListRequest == [op |-> "movePositions", positions |-> <<>>]

\* a mutant of DisableRequest: the flag is sent without the inversion
C3_DisableRequest(option_id) ==
    [op |-> "updateEnabled", isDisabled |-> TRUE, optionId |-> option_id]

DisableRequest(option_id) ==
    [op |-> "updateEnabled", isDisabled |-> FALSE, optionId |-> option_id]

\* a mutant of EnableRequest: the flag is sent without the inversion
C15_EnableRequest(option_id) ==
    [op |-> "updateEnabled", isDisabled |-> FALSE, optionId |-> option_id]

EnableRequest(option_id) ==
    [op |-> "updateEnabled", isDisabled |-> TRUE, optionId |-> option_id]

AddRequest(value, position) ==
    [op |-> "addOption", value |-> value, position |-> position]

MoveRequest(pos) == [op |-> "movePositions", positions |-> pos]

\* a mutant of Post: is_error logs the error status and does not raise
C7_Post(req, next) ==
    \/ /\ \E r \in RemoteResults(remote, req) : remote' = r
       /\ calls' = Append(calls, [request |-> req, ok |-> TRUE])
       /\ pc' = next
       /\ failures' = failures
    \/ /\ flaky /\ failures < MaxFailures
       /\ remote' = remote
       /\ calls' = Append(calls, [request |-> req, ok |-> FALSE])
       /\ pc' = next
       /\ failures' = failures + 1

\* session.post followed by is_error: the endpoint serves the request and the
\* run goes on at next, or it answers with an error status, is_error raises
\* and the process ends
Post(req, next) ==
    \/ /\ \E r \in RemoteResults(remote, req) : remote' = r
       /\ calls' = Append(calls, [request |-> req, ok |-> TRUE])
       /\ pc' = next
       /\ failures' = failures
    \/ /\ flaky /\ failures < MaxFailures
       /\ remote' = remote
       /\ calls' = Append(calls, [request |-> req, ok |-> FALSE])
       /\ pc' = "failed"
       /\ failures' = failures + 1

\* "if args.dry_run: return None" before the post
Skip(next) == pc' = next /\ UNCHANGED <<remote, calls, failures>>

get_options(next) == Post(ListRequest, next)

disable_option(option_id, next) ==
    IF dry_run THEN Skip(next) ELSE Post(DisableRequest(option_id), next)

enable_option(option_id, next) ==
    IF dry_run THEN Skip(next) ELSE Post(EnableRequest(option_id), next)

\* a mutant of add_option: the dry-run test is missing
C5_add_option(value, position, next) == Post(AddRequest(value, position), next)

add_option(value, position, next) ==
    IF dry_run THEN Skip(next) ELSE Post(AddRequest(value, position), next)

\* a mutant of move_option: the JSON body of get_options, with its empty
\* positions, is posted
C11_move_option(pos, next) ==
    IF dry_run THEN Skip(next) ELSE Post(ListRequest, next)

move_option(pos, next) ==
    IF dry_run THEN Skip(next) ELSE Post(MoveRequest(pos), next)

\* a mutant of SortedOptList: the list is filtered and not sorted
C4_SortedOptList(options, static) == SelectSeqNotIn(options, Range(static))

\* unsorted_opt_list and sorted_opt_list
SortedOptList(options, static) ==
    SortedByValue(SelectSeqNotIn(options, Range(static)))

\* positions = {opt.get('optionId'): str(idx+1) for idx,opt in enumerate(sorted_opt_list)}
PositionsOf(sorted_opt_list) ==
    [id \in OptionIds(sorted_opt_list) |->
        LET i == CHOOSE i \in 1..Len(sorted_opt_list) :
                    /\ sorted_opt_list[i].optionId = id
                    /\ \A j \in (i + 1)..Len(sorted_opt_list) :
                           sorted_opt_list[j].optionId # id
        IN Str(i)]

\* max_pos = len(positions), taken before the static options are entered
MaxPos(options, static) == Cardinality(DOMAIN PositionsOf(SortedOptList(options, static)))

\* a mutant of StaticPosition: the static options start at max_pos
C10_StaticPosition(max_pos, i) == Str(max_pos + i - 1)

\* str(max_pos + idx + 1), i being idx + 1
StaticPosition(max_pos, i) == Str(max_pos + i)

---------------------------------------------------------------------------
(* Initial states *)

NoRun == [outcome |-> "none", remote |-> <<>>, positions |-> <<>>, calls |-> <<>>]

\* an option value is unique among the enabled options; disabled options may
\* repeat a value
UniqueAmongEnabled(r) ==
    \A i, j \in 1..Len(r) :
        (i # j /\ r[i].value = r[j].value) => (r[i].isDisabled \/ r[j].isDisabled)

RemoteLists(values, n) ==
    {r \in UNION {[1..k -> [optionId : 1..n, value : values, isDisabled : BOOLEAN]] :
                    k \in 0..n} :
        /\ \A i \in 1..Len(r) : r[i].optionId = i
        /\ UniqueAmongEnabled(r)}

InputLines(lines, n) == UNION {[1..k -> lines] : k \in 0..n}

InitWith(remotes, statics, inputs, dry_runs, errors) ==
    /\ remote \in remotes
    /\ static_opts \in statics
    /\ input \in inputs
    /\ dry_run \in dry_runs
    /\ pc = "get_options"
    /\ current_options_json = <<>>
    /\ option_list = <<>>
    /\ missing = <<>>
    /\ additions = <<>>
    /\ idx = 1
    /\ opt_id = None
    /\ positions = <<>>
    /\ calls = <<>>
    /\ run = 1
    /\ failures = 0
    /\ flaky = errors
    /\ start_remote = remote
    /\ first_remote = remote
    /\ prev = NoRun

Remotes == RemoteLists({A, B, Other}, MaxRemote)
Statics == {<<Other>>, <<Other, A>>, <<Other, Other>>}
Inputs == InputLines({A \o NL, SP \o B \o NL, NL}, MaxLines)

Init == InitWith(Remotes, Statics, Inputs, BOOLEAN, TRUE)

\* without --dry-run, and with an endpoint that serves every request
InitNoFailure == InitWith(Remotes, Statics, Inputs, {FALSE}, FALSE)

\* the worked example: the options A, B and Other, all enabled, in any list
\* order; the static tail [Other]; input lines among "B" and "C"
ExampleRemotes ==
    {r \in RemoteLists({A, B, Other}, 3) :
        /\ Range(ValuesOf(r)) = {A, B, Other}
        /\ \A i \in 1..Len(r) : ~r[i].isDisabled}

\* without --dry-run, with an endpoint that may answer a request with an error
InitReal == InitWith(Remotes, Statics, Inputs, {FALSE}, TRUE)

\* fetched lists over B, C and Other, of which an input of "A" and "B" leaves
\* up to two values to disable and two to add; every request is served
PlanRemotes == RemoteLists({B, C, Other}, MaxRemote)

InitPlan == InitWith(PlanRemotes, {<<Other>>, <<Other, A>>}, Inputs, BOOLEAN, FALSE)

InitExample ==
    InitWith(ExampleRemotes, {<<Other>>}, InputLines({B \o NL, C \o NL}, MaxLines),
             BOOLEAN, TRUE)

---------------------------------------------------------------------------
(* main() *)

\* current_options_json = get_options()
GetOptions ==
    /\ pc = "get_options"
    /\ get_options("read_input")
    /\ current_options_json' = IF pc' = "failed" THEN current_options_json ELSE remote'
    /\ UNCHANGED <<static_opts, input, dry_run, option_list, missing, additions,
                   idx, opt_id, positions, run, flaky, start_remote, first_remote, prev>>

\* the phase that follows the plan, and the one that follows the disable loop
AfterDisable(adds) == IF adds # <<>> THEN "add" ELSE "enable_lookup"
AfterPlan(miss, adds) == IF miss # <<>> THEN "disable" ELSE AfterDisable(adds)

\* option_list = read_input(), then the sets and the two sorted differences
ReadInput ==
    /\ pc = "read_input"
    /\ IF NoOptionsRead(static_opts, input)
       THEN /\ pc' = "exit1"
            /\ UNCHANGED <<option_list, missing, additions>>
       ELSE LET ol == read_input(static_opts, input)
                jira_options == Range(ValuesOf(current_options_json))
                file_options == Range(ol)
            IN /\ option_list' = ol
               /\ missing' = Missing(jira_options, file_options)
               /\ additions' = Additions(jira_options, file_options)
               /\ pc' = AfterPlan(missing', additions')
    /\ idx' = 1
    /\ UNCHANGED <<remote, static_opts, input, dry_run, current_options_json,
                   opt_id, positions, calls, run, failures, flaky, start_remote,
                   first_remote, prev>>

\* one turn of "for opt in missing": the first option of the snapshot with
\* that value is disabled
Disable ==
    /\ pc = "disable"
    /\ LET next == IF idx < Len(missing) THEN "disable" ELSE AfterDisable(additions)
           id == get_option_id(current_options_json, missing[idx])
       IN IF id = None THEN Skip(next) ELSE disable_option(id, next)
    /\ idx' = IF idx < Len(missing) THEN idx + 1 ELSE 1
    /\ UNCHANGED <<static_opts, input, dry_run, current_options_json, option_list,
                   missing, additions, opt_id, positions, run, flaky, start_remote,
                   first_remote, prev>>

\* one turn of "for idx,opt in enumerate(additions)"
Add ==
    /\ pc = "add"
    /\ add_option(additions[idx], Str(idx - 1),
                  IF idx < Len(additions) THEN "add" ELSE "enable_lookup")
    /\ idx' = IF idx < Len(additions) THEN idx + 1 ELSE 1
    /\ UNCHANGED <<static_opts, input, dry_run, current_options_json, option_list,
                   missing, additions, opt_id, positions, run, flaky, start_remote,
                   first_remote, prev>>

\* opt_id = get_option_id(opt) in "for opt in option_list"
EnableLookup ==
    /\ pc = "enable_lookup"
    /\ get_options("enable")
    /\ opt_id' = IF pc' = "failed" THEN opt_id
                 ELSE get_option_id(remote', option_list[idx])
    /\ UNCHANGED <<static_opts, input, dry_run, current_options_json, option_list,
                   missing, additions, idx, positions, run, flaky, start_remote,
                   first_remote, prev>>

\* enable_option(opt_id)
Enable ==
    /\ pc = "enable"
    /\ enable_option(opt_id, IF idx < Len(option_list) THEN "enable_lookup" ELSE "refetch")
    /\ idx' = IF idx < Len(option_list) THEN idx + 1 ELSE 1
    /\ UNCHANGED <<static_opts, input, dry_run, current_options_json, option_list,
                   missing, additions, opt_id, positions, run, flaky, start_remote,
                   first_remote, prev>>

\* current_options_json = get_options(), then the positions of the sorted
\* non-static options
Refetch ==
    /\ pc = "refetch"
    /\ get_options("static_lookup")
    /\ IF pc' = "failed"
       THEN UNCHANGED <<current_options_json, positions>>
       ELSE /\ current_options_json' = remote'
            /\ positions' = PositionsOf(SortedOptList(remote', static_opts))
    /\ UNCHANGED <<static_opts, input, dry_run, option_list, missing, additions,
                   idx, opt_id, run, flaky, start_remote, first_remote, prev>>

\* one turn of "for idx, opt in enumerate(static_opts)"
StaticLookup ==
    /\ pc = "static_lookup"
    /\ get_options(IF idx < Len(static_opts) THEN "static_lookup" ELSE "move")
    /\ IF pc' = "failed"
       THEN UNCHANGED <<positions, idx>>
       ELSE /\ positions' =
                  (get_option_id(remote', static_opts[idx]) :>
                      StaticPosition(MaxPos(current_options_json, static_opts), idx))
                  @@ positions
            /\ idx' = IF idx < Len(static_opts) THEN idx + 1 ELSE 1
    /\ UNCHANGED <<static_opts, input, dry_run, current_options_json, option_list,
                   missing, additions, opt_id, run, flaky, start_remote, first_remote, prev>>

\* move_option(positions), then "Success"
Move ==
    /\ pc = "move"
    /\ move_option(positions, "done")
    /\ UNCHANGED <<static_opts, input, dry_run, current_options_json, option_list,
                   missing, additions, idx, opt_id, positions, run, flaky, start_remote,
                   first_remote, prev>>

Ended == pc \in {"done", "failed", "exit1"}

\* the process is invoked again with the same arguments and input
Rerun ==
    /\ Ended
    /\ run < MaxRuns
    /\ prev' = [outcome |-> pc, remote |-> remote, positions |-> positions,
                calls |-> calls]
    /\ run' = run + 1
    /\ start_remote' = remote
    /\ pc' = "get_options"
    /\ current_options_json' = <<>>
    /\ option_list' = <<>>
    /\ missing' = <<>>
    /\ additions' = <<>>
    /\ idx' = 1
    /\ opt_id' = None
    /\ positions' = <<>>
    /\ calls' = <<>>
    /\ UNCHANGED <<remote, static_opts, input, dry_run, failures, flaky, first_remote>>

Next ==
    \/ GetOptions
    \/ ReadInput
    \/ Disable
    \/ Add
    \/ EnableLookup
    \/ Enable
    \/ Refetch
    \/ StaticLookup
    \/ Move
    \/ Rerun

Spec == Init /\ [][Next]_vars

SpecExample == InitExample /\ [][Next]_vars

SpecNoFailure == InitNoFailure /\ [][Next]_vars

\* one invocation of the process
NextOnce ==
    \/ GetOptions
    \/ ReadInput
    \/ Disable
    \/ Add
    \/ EnableLookup
    \/ Enable
    \/ Refetch
    \/ StaticLookup
    \/ Move

SpecOnce == Init /\ [][NextOnce]_vars

SpecPlan == InitPlan /\ [][NextOnce]_vars

SpecReal == InitReal /\ [][NextOnce]_vars

---------------------------------------------------------------------------
(* Vocabulary of the properties *)

\* the values of the enabled options of a list
EnabledValues(r) == {r[i].value : i \in {j \in 1..Len(r) : ~r[j].isDisabled}}

\* D \cup S: the non-blank input lines, stripped, with the static tail
Desired == Range(static_opts) \cup ({Strip(input[i]) : i \in 1..Len(input)} \ {<<>>})

\* the option of list r with the given id
OptionOf(r, id) == r[CHOOSE i \in 1..Len(r) : r[i].optionId = id]

\* the requests of the run so far that were served, and those of one kind
Requests == [i \in 1..Len(calls) |-> calls[i].request]
IsList(req) == req.op = "movePositions" /\ req.positions = <<>>
IsMutating(req) == ~IsList(req)
Mutations == SelectSeq(Requests, IsMutating)

Success == pc = "done"
RealSuccess == pc = "done" /\ ~dry_run

---------------------------------------------------------------------------
(* C1 *)

\* C1 (convergence): after one non-dry run of main() in which every remote
\* call succeeds, the values of the enabled remote options are exactly D \cup S.
C1_Convergence ==
    (RealSuccess /\ run = 1 /\ failures = 0) => EnabledValues(remote) = Desired

---------------------------------------------------------------------------
(* C3 *)

\* C3 (non-destruction): in every state of a run every optionId of the list the
\* run started from is still present with its value; only listing, enabling or
\* disabling, adding and repositioning requests are posted; and after a
\* successful non-dry run the option the disable phase picked for a removed
\* value is still there, disabled.
C3_NonDestruction ==
    /\ \A i \in 1..Len(start_remote) :
          \E j \in 1..Len(remote) :
             /\ remote[j].optionId = start_remote[i].optionId
             /\ remote[j].value = start_remote[i].value
    /\ \A i \in 1..Len(first_remote) :
          \E j \in 1..Len(remote) :
             /\ remote[j].optionId = first_remote[i].optionId
             /\ remote[j].value = first_remote[i].value
    /\ \A i \in 1..Len(calls) :
          calls[i].request.op \in {"movePositions", "updateEnabled", "addOption"}
    /\ RealSuccess =>
          \A v \in Range(ValuesOf(start_remote)) \ Desired :
             LET o == OptionOf(remote, get_option_id(start_remote, v))
             IN o.value = v /\ o.isDisabled

\* a successful non-dry run that had values to remove and values to add
C3_Witness ==
    /\ RealSuccess
    /\ missing # <<>>
    /\ Len(remote) > Len(start_remote)
    /\ \E i \in 1..Len(start_remote) :
          ~start_remote[i].isDisabled /\ start_remote[i].value \notin Desired

---------------------------------------------------------------------------
(* C5 *)

\* C5 (dry run): with dry_run set no mutating request is ever posted and the
\* remote list never changes, while the list requests are still posted: one
\* before the plan is computed and, in a run that reaches its end, one per
\* enable lookup, one for the re-fetch and one per static option; the plan is
\* the one main computes from the fetched list.
C5_DryRunNoOp ==
    dry_run =>
        /\ remote = first_remote
        /\ \A i \in 1..Len(calls) : IsList(calls[i].request)
        /\ (pc \notin {"get_options", "failed"}) =>
              Len(calls) >= 1 /\ calls[1].ok
        /\ (pc \notin {"get_options", "read_input", "failed", "exit1"}) =>
              /\ missing = SortedSet(Range(ValuesOf(remote)) \ Desired)
              /\ additions = SortedSet(Desired \ Range(ValuesOf(remote)))
        /\ Success => Len(calls) = 2 + Len(option_list) + Len(static_opts)

\* a dry run that reached its end with removals and additions planned
C5_Witness ==
    dry_run /\ Success /\ missing # <<>> /\ additions # <<>>

---------------------------------------------------------------------------
(* C6 *)

\* C6 (input error before any remote call): when the input supplies no value,
\* the run exits with status 1 and no request of any kind was posted before.
C6_NoCallBeforeInputError ==
    pc = "exit1" => calls = <<>>

---------------------------------------------------------------------------
(* C7 *)

\* the state part of C7: only the last request of a run can have failed, the
\* run is at "failed" exactly when it has, and a run at "Success" had none
C7_FailedCallIsLast ==
    /\ \A i \in 1..(Len(calls) - 1) : calls[i].ok
    /\ (pc = "failed") <=> (calls # <<>> /\ ~calls[Len(calls)].ok)
    /\ Success => \A i \in 1..Len(calls) : calls[i].ok

\* the step part of C7: the failing request changes nothing on the remote, and
\* from "failed" the only step is a new invocation of the process, which
\* posts nothing and changes nothing on the remote (no retry, no rollback)
C7_NoStepAfterFailure ==
    /\ (pc # "failed" /\ pc' = "failed") => remote' = remote
    /\ pc = "failed" =>
          /\ remote' = remote
          /\ (calls' = calls \/ (run' = run + 1 /\ calls' = <<>>))

\* C7 (abort on first transport failure): a request that fails ends the run:
\* no later request, no retry, no rollback, no Success.
C7_AbortOnFirstFailure ==
    []C7_FailedCallIsLast /\ [][C7_NoStepAfterFailure]_vars

\* a run that failed after it had added or disabled something
C7_Witness ==
    /\ pc = "failed"
    /\ Len(Mutations) >= 3
    /\ Len(remote) > Len(start_remote)
    /\ \E i \in 1..Len(start_remote) :
          /\ ~start_remote[i].isDisabled
          /\ OptionOf(remote, start_remote[i].optionId).isDisabled

---------------------------------------------------------------------------
(* C2 *)

\* C2 (idempotence): when a successful non-dry run is followed by a second
\* successful run with the same input, the remote list after the second run
\* (ids, values, isDisabled flags, order) is the list after the first run, and
\* the second run sends the position mapping the first run sent.
C2_Idempotence ==
    (RealSuccess /\ run >= 2 /\ prev.outcome = "done") =>
        /\ remote = prev.remote
        /\ calls[Len(calls)].request = prev.calls[Len(prev.calls)].request
        /\ positions = prev.positions

\* a second successful run after a first one that disabled and added options
C2_Witness ==
    /\ RealSuccess /\ run = 2 /\ prev.outcome = "done"
    /\ Len(remote) > Len(first_remote)
    /\ EnabledValues(first_remote) \ Desired # {}
    /\ SubSeq(ValuesOf(remote), 1, Len(first_remote)) # ValuesOf(first_remote)

---------------------------------------------------------------------------
(* C4 *)

\* the mapping the last request of a successful non-dry run carries
SentPositions == calls[Len(calls)].request.positions

PositionOf(id) == ParseInt(SentPositions[id])
ValueOfId(id) == OptionOf(remote, id).value
IsStaticId(id) == ValueOfId(id) \in Range(static_opts)

\* the static tail after the non-static options, in the declared order
StaticTailLast ==
    /\ \A k1, k2 \in DOMAIN SentPositions :
          (~IsStaticId(k1) /\ IsStaticId(k2)) => PositionOf(k1) < PositionOf(k2)
    /\ \A i, j \in 1..Len(static_opts) :
          (i < j /\ static_opts[i] # static_opts[j]) =>
              \E k1, k2 \in DOMAIN SentPositions :
                 /\ ValueOfId(k1) = static_opts[i]
                 /\ ValueOfId(k2) = static_opts[j]
                 /\ PositionOf(k1) < PositionOf(k2)

\* C4 as stated: in the mapping sent by a successful non-dry run the non-static
\* values are in strictly ascending order by position and the static tail
\* comes last, in the declared order.
C4_StrictOrdering ==
    RealSuccess =>
        /\ \A k1, k2 \in DOMAIN SentPositions :
              (~IsStaticId(k1) /\ ~IsStaticId(k2) /\ PositionOf(k1) < PositionOf(k2))
                  => StrLess(ValueOfId(k1), ValueOfId(k2))
        /\ StaticTailLast

\* C4 as amended: in the mapping sent by a successful non-dry run the
\* non-static values are in ascending order by position, two options being in
\* strictly ascending order unless they carry the same value, and the static
\* tail comes last, in the declared order.
C4_Ordering ==
    RealSuccess =>
        /\ DOMAIN SentPositions \subseteq OptionIds(remote)
        /\ \A k1, k2 \in DOMAIN SentPositions :
              (~IsStaticId(k1) /\ ~IsStaticId(k2) /\ PositionOf(k1) < PositionOf(k2))
                  => \/ StrLess(ValueOfId(k1), ValueOfId(k2))
                     \/ ValueOfId(k1) = ValueOfId(k2)
        /\ StaticTailLast

\* a successful non-dry run that started from a list with two non-static
\* values out of order and sent a mapping of three entries or more
C4_Witness ==
    /\ RealSuccess
    /\ Cardinality(DOMAIN SentPositions) >= 3
    /\ \E i, j \in 1..Len(start_remote) :
          /\ i < j
          /\ StrLess(start_remote[j].value, start_remote[i].value)
          /\ start_remote[i].value \notin Range(static_opts)
          /\ start_remote[j].value \notin Range(static_opts)

---------------------------------------------------------------------------
(* C9 *)

\* C9 (PositionMap): the mapping handed to move_option holds every enabled
\* non-static option, holds the options of the static tail in its last N
\* slots (N the length of the static tail), and its positions are exactly
\* "1".."K", K being the number of its entries.
C9_PositionMap ==
    pc \in {"move", "done"} =>
        LET K == Cardinality(DOMAIN positions)
            N == Len(static_opts)
        IN /\ \A i \in 1..Len(remote) :
                 (~remote[i].isDisabled /\ remote[i].value \notin Range(static_opts))
                     => remote[i].optionId \in DOMAIN positions
           /\ \A i \in 1..N :
                 \E k \in DOMAIN positions \cap OptionIds(remote) :
                    /\ OptionOf(remote, k).value = static_opts[i]
                    /\ positions[k] = Str(K - N + i)
           /\ {positions[k] : k \in DOMAIN positions} = {Str(i) : i \in 1..K}

\* C9 for the mappings that are posted (the non-dry runs)
C9_PostedPositionMap == ~dry_run => C9_PositionMap

---------------------------------------------------------------------------
(* C8 *)

\* main() as a function of the list it starts from, when no request fails:
\* the disable loop, the add loop, the enable loop, the positions and the move
RECURSIVE DisableAll(_, _, _, _)
DisableAll(r, snapshot, miss, i) ==
    IF i > Len(miss) THEN r
    ELSE LET id == get_option_id(snapshot, miss[i])
         IN DisableAll(RemoteUpdateEnabled(r, id, DisableRequest(id).isDisabled),
                       snapshot, miss, i + 1)

RECURSIVE AddAll(_, _, _)
AddAll(r, adds, i) ==
    IF i > Len(adds) THEN r
    ELSE AddAll(RemoteAdd(r, adds[i], Len(r) + 1), adds, i + 1)

RECURSIVE EnableAll(_, _, _)
EnableAll(r, opts, i) ==
    IF i > Len(opts) THEN r
    ELSE LET id == get_option_id(r, opts[i])
         IN EnableAll(RemoteUpdateEnabled(r, id, EnableRequest(id).isDisabled),
                      opts, i + 1)

RECURSIVE StaticPositions(_, _, _, _)
StaticPositions(pos, r, static, i) ==
    IF i > Len(static) THEN pos
    ELSE StaticPositions((get_option_id(r, static[i]) :>
                             StaticPosition(MaxPos(r, static), i)) @@ pos,
                         r, static, i + 1)

SyncResult(r, static, lines) ==
    LET opts == read_input(static, lines)
        jira_options == Range(ValuesOf(r))
        file_options == Range(opts)
        r1 == DisableAll(r, r, Missing(jira_options, file_options), 1)
        r2 == AddAll(r1, Additions(jira_options, file_options), 1)
        r3 == EnableAll(r2, opts, 1)
        pos == StaticPositions(PositionsOf(SortedOptList(r3, static)), r3, static, 1)
    IN RemoteMove(r3, pos)

\* a failure-free non-dry first run ends with the list SyncResult computes
SyncResultIsTheRun ==
    (RealSuccess /\ run = 1 /\ failures = 0) =>
        remote = SyncResult(first_remote, static_opts, input)

\* the order part of C8 alone
C8_SameOrder ==
    (RealSuccess /\ run = 2 /\ prev.outcome = "failed") =>
        remote = SyncResult(first_remote, static_opts, input)

\* C8 (recovery by re-run): when a run aborts on a transport failure and the
\* process is run again with the same input and succeeds, the enabled values
\* are D \cup S and the values are in the order a single failure-free run from
\* the same list produces.
C8_Recovery ==
    (RealSuccess /\ run = 2 /\ prev.outcome = "failed") =>
        /\ EnabledValues(remote) = Desired
        /\ ValuesOf(remote) = ValuesOf(SyncResult(first_remote, static_opts, input))

---------------------------------------------------------------------------
(* C10 *)

\* the first run of the worked example, ended with "Success"
ExampleRun ==
    /\ RealSuccess /\ run = 1
    /\ first_remote \in ExampleRemotes
    /\ static_opts = <<Other>>
    /\ input = <<B \o NL, C \o NL>>

IsDisableCall(req) == req.op = "updateEnabled" /\ ~req.isDisabled
IsEnableCall(req) == req.op = "updateEnabled" /\ req.isDisabled
IsAddCall(req) == req.op = "addOption"

\* the values of the options the disable (enable) requests name, in order
TargetValues(reqs) == [i \in 1..Len(reqs) |-> ValueOfId(reqs[i].optionId)]
DisabledByRun == TargetValues(SelectSeq(Requests, IsDisableCall))
EnabledByRun == TargetValues(SelectSeq(Requests, IsEnableCall))
AddedByRun ==
    LET reqs == SelectSeq(Requests, IsAddCall)
    IN [i \in 1..Len(reqs) |-> reqs[i].value]

\* the mapping sent, by value
SentValuePositions == {<<ValueOfId(k), SentPositions[k]>> : k \in DOMAIN SentPositions}

\* C10 as stated: the run disables [A], adds [C], enables [B, C] and sends
\* B at position 1, C at position 2, Other at position 3.
C10_ExampleAsStated ==
    ExampleRun =>
        /\ DisabledByRun = <<A>>
        /\ AddedByRun = <<C>>
        /\ EnabledByRun = <<B, C>>
        /\ SentValuePositions = {<<B, Str(1)>>, <<C, Str(2)>>, <<Other, Str(3)>>}

\* C10 as amended: the run disables [A], adds [C], enables [Other, B, C] (the
\* whole option list, static tail first) and sends A at position 1, B at
\* position 2, C at position 3 and Other at position 4: the disabled A keeps
\* its slot, and B, C, Other follow in this order.
C10_Example ==
    ExampleRun =>
        /\ DisabledByRun = <<A>>
        /\ AddedByRun = <<C>>
        /\ EnabledByRun = <<Other, B, C>>
        /\ SentValuePositions =
              {<<A, Str(1)>>, <<B, Str(2)>>, <<C, Str(3)>>, <<Other, Str(4)>>}
        /\ EnabledValues(remote) = {B, C, Other}
        /\ ValuesOf(remote) = <<A, B, C, Other>>

\* the worked example ran to "Success" from a list that held Other first,
\* after the twelve requests of a run that is never cut short
C10_Witness ==
    ExampleRun /\ first_remote[1].value = Other /\ Len(calls) = 12

---------------------------------------------------------------------------
(* C11 *)

IsReposition(req) == req.op = "movePositions" /\ req.positions # <<>>

\* the phase a mutating request belongs to
PhaseOf(req) ==
    IF IsDisableCall(req) THEN 1
    ELSE IF IsAddCall(req) THEN 2
    ELSE IF IsEnableCall(req) THEN 3
    ELSE 4

\* no add before the last disable, no enable before the last add, no
\* reposition before the last enable: the phase never decreases from one
\* mutating request to the next
PhasesInOrder ==
    LET m == Mutations
    IN \A i \in 1..(Len(m) - 1) : PhaseOf(m[i]) <= PhaseOf(m[i + 1])

Repositions == SelectSeq(Requests, IsReposition)

\* the run ends with the last enable request, the list request of the
\* re-fetch, one list request per static option and the reposition request
RepositionClosesRun ==
    LET n == Len(calls)
        k == Len(static_opts)
    IN /\ Len(Repositions) = 1
       /\ n >= k + 3
       /\ IsReposition(calls[n].request)
       /\ \A i \in (n - k - 1)..(n - 1) : IsList(calls[i].request)
       /\ IsEnableCall(calls[n - k - 2].request)

\* C11 as stated: in every run the requests come in the order disable, add,
\* enable, re-fetch, reposition, and a successful run posts exactly one
\* reposition request, with a non-empty mapping, as its last request.
C11_PhaseOrderAsStated ==
    /\ PhasesInOrder
    /\ Success => RepositionClosesRun

\* C11 as amended: in every run the requests come in the order disable, add,
\* enable, re-fetch, reposition; a successful run without --dry-run posts
\* exactly one reposition request, with a non-empty mapping, after the last
\* enable request and the re-fetch and as its last request; no run posts a
\* second one or a request after it, and a run with --dry-run posts none.
C11_PhaseOrder ==
    /\ PhasesInOrder
    /\ RealSuccess => RepositionClosesRun
    /\ \A i \in 1..(Len(calls) - 1) : ~IsReposition(calls[i].request)
    /\ dry_run => Repositions = <<>>

\* a successful run that posted disable, add and enable requests
C11_Witness ==
    /\ RealSuccess
    /\ SelectSeq(Requests, IsDisableCall) # <<>>
    /\ Len(SelectSeq(Requests, IsAddCall)) >= 2
    /\ Len(static_opts) = 2

---------------------------------------------------------------------------
(* C12 *)

\* read_input has returned and the two differences have been computed
Planned == option_list # <<>>

\* the values of the list fetched at the start of the run
Current == Range(ValuesOf(start_remote))

\* strictly ascending in the order of Python's string comparison
StrictlyAscending(seq) ==
    \A i, j \in 1..Len(seq) : i < j => StrLess(seq[i], seq[j])

\* C12 (diff plan): with current the values of the fetched list and desired
\* the values of the desired list, missing holds the elements of
\* current \ desired and additions those of desired \ current, each once and
\* in ascending lexicographic order; the two share no value, additions holds
\* no value of the fetched list, and both are empty when current = desired.
C12_DiffPlan ==
    Planned =>
        /\ Range(missing) = Current \ Desired
        /\ Range(additions) = Desired \ Current
        /\ StrictlyAscending(missing)
        /\ StrictlyAscending(additions)
        /\ Range(missing) \cap Range(additions) = {}
        /\ Range(additions) \cap Current = {}
        /\ Current = Desired => (missing = <<>> /\ additions = <<>>)

\* a plan with two values to disable, fetched out of order, and two to add
C12_Witness ==
    /\ Planned
    /\ Len(missing) = 2
    /\ Len(additions) = 2
    /\ StrLess(start_remote[2].value, start_remote[1].value)

---------------------------------------------------------------------------
(* C13 *)

\* every input line is blank: it holds white space only
AllBlank ==
    \A i \in 1..Len(input) : \A k \in 1..Len(input[i]) : IsSpace(input[i][k])

\* the run has not gone past read_input
NoPhaseEntered ==
    /\ pc \in {"get_options", "read_input", "exit1", "failed"}
    /\ Mutations = <<>>
    /\ Len(calls) <= 1
    /\ remote = start_remote

\* C13 as stated: whenever the set of the values read from the input together
\* with the static tail equals the set of the static-tail values, the run
\* fails fast and never enters the disable, add, enable or reorder phase.
C13_FailFastAsStated == Desired = Range(static_opts) => NoPhaseEntered

\* C13 as amended: whenever the input supplies no non-blank line (the
\* aggregated list is as long as the static tail), the run fails fast and
\* never enters the disable, add, enable or reorder phase; the run exits with
\* status 1 in no other case.
C13_FailFast ==
    /\ AllBlank => NoPhaseEntered
    /\ pc = "exit1" => AllBlank

\* a run that exited on two blank input lines
C13_Witness == pc = "exit1" /\ Len(input) = 2 /\ Len(static_opts) = 2

---------------------------------------------------------------------------
(* C14 *)

EnableCalls == SelectSeq(Requests, IsEnableCall)

\* id is the optionId of the first option of list r with the value
IsFirstWith(r, id, value) ==
    \E k \in 1..Len(r) :
        /\ r[k].optionId = id
        /\ r[k].value = value
        /\ \A j \in 1..(k - 1) : r[j].value # value

\* every enable request follows a served list request, and the mutating
\* request after an enable request, if any, is an enable or the reposition
\* request: no add request follows an enable request
LookupBeforeEnable ==
    /\ \A i \in 1..Len(calls) :
          IsEnableCall(calls[i].request) =>
              /\ i > 1
              /\ IsList(calls[i - 1].request)
              /\ calls[i - 1].ok
    /\ LET m == Mutations
       IN \A i \in 1..(Len(m) - 1) :
             IsEnableCall(m[i]) => (IsEnableCall(m[i + 1]) \/ IsReposition(m[i + 1]))

\* C14 (enable phase coverage): without --dry-run the enable phase posts one
\* enable request for every element of the desired list, static options
\* included, in the order of that list, and the id of each request is the
\* optionId of the first option with that value in the list fetched just
\* before it, after every add request of the run.  Until the reposition
\* request is served the remote list has the order of those fetched lists.
C14_EnableCoverage ==
    ~dry_run =>
        /\ Len(EnableCalls) <= Len(option_list)
        /\ LookupBeforeEnable
        /\ pc # "done" =>
              \A i \in 1..Len(EnableCalls) :
                  IsFirstWith(remote, EnableCalls[i].optionId, option_list[i])
        /\ pc \in {"refetch", "static_lookup", "move", "done"} =>
              /\ Len(EnableCalls) = Len(option_list)
              /\ EnabledByRun = option_list

\* the enable phase has ended for a desired list of three values, two of them
\* added by the run, over a remote list that holds a value twice
C14_Witness ==
    /\ ~dry_run
    /\ pc = "refetch"
    /\ Len(option_list) >= 3
    /\ Len(additions) = 2
    /\ \E i, j \in 1..Len(remote) : i < j /\ remote[i].value = remote[j].value

---------------------------------------------------------------------------
(* C15 *)

\* this step posts a request
Posts == Len(calls') = Len(calls) + 1
Posted == calls'[Len(calls')]

\* the request enable_option posts carries the flag, and when it is served
\* the option is enabled; the request disable_option posts carries the
\* opposite flag, and when it is served the option is disabled
FlagOfEnable(flag) ==
    (pc = "enable" /\ Posts) =>
        /\ Posted.request.op = "updateEnabled"
        /\ Posted.request.isDisabled = flag
        /\ Posted.ok => ~OptionOf(remote', Posted.request.optionId).isDisabled

FlagOfDisable(flag) ==
    (pc = "disable" /\ Posts) =>
        /\ Posted.request.op = "updateEnabled"
        /\ Posted.request.isDisabled = flag
        /\ Posted.ok => OptionOf(remote', Posted.request.optionId).isDisabled

\* C15 as stated: every updateEnabled request sent in order to re-enable an
\* option carries isDisabled = false, and every request sent in order to
\* disable an option carries the opposite value.
C15_FlagAsStated == [][FlagOfEnable(FALSE) /\ FlagOfDisable(TRUE)]_vars

\* C15 as amended: every updateEnabled request sent in order to re-enable an
\* option carries isDisabled = true, and every request sent in order to
\* disable an option carries the opposite value, isDisabled = false.
C15_Flag == [][FlagOfEnable(TRUE) /\ FlagOfDisable(FALSE)]_vars

\* the run has disabled an option and has re-enabled one that was disabled
C15_Witness ==
    /\ pc = "refetch"
    /\ SelectSeq(Requests, IsDisableCall) # <<>>
    /\ \E i \in 1..Len(start_remote) :
          /\ start_remote[i].isDisabled
          /\ ~OptionOf(remote, start_remote[i].optionId).isDisabled

---------------------------------------------------------------------------
(* C16 *)

\* the ids get_option_id has returned to the static loop so far
PositionKeys == DOMAIN positions

\* C16 (no null identifier in a real run): without --dry-run, when every
\* request is served, the endpoint adds what it is asked to add and nothing
\* else changes the remote list, get_option_id never returns None: every
\* enable request names the optionId of an existing option that carries the
\* value looked up, and every key of the mapping built for and sent with the
\* reposition request is the optionId of an existing option.
C16_NoNullId ==
    /\ pc = "enable" =>
          /\ opt_id # None
          /\ opt_id \in OptionIds(remote)
          /\ OptionOf(remote, opt_id).value = option_list[idx]
    /\ \A i \in 1..Len(calls) :
          calls[i].request.op = "updateEnabled" =>
              /\ calls[i].request.optionId # None
              /\ calls[i].request.optionId \in OptionIds(remote)
    /\ pc \in {"static_lookup", "move", "done"} =>
          /\ None \notin PositionKeys
          /\ PositionKeys \subseteq OptionIds(remote)
    /\ pc = "move" => Range(static_opts) \subseteq {ValueOfId(k) : k \in PositionKeys}
    /\ \A i \in 1..Len(calls) :
          IsReposition(calls[i].request) =>
              /\ None \notin DOMAIN calls[i].request.positions
              /\ DOMAIN calls[i].request.positions \subseteq OptionIds(remote)

\* a finished run that added two options and looked up, enabled and
\* positioned them by their new ids
C16_Witness ==
    /\ RealSuccess
    /\ Len(additions) = 2
    /\ Len(remote) = Len(start_remote) + 2
    /\ \A i \in 1..Len(remote) : remote[i].optionId \in DOMAIN SentPositions

---------------------------------------------------------------------------
(* C17 *)

\* the options that were enabled before the run and carry a desired value
KeptOptions ==
    {i \in 1..Len(start_remote) :
        ~start_remote[i].isDisabled /\ start_remote[i].value \in Desired}

\* C17 (no transient outage of a desired value): an option that is enabled
\* before the run and carries a value of D \cup S is enabled in every state of
\* the run, a run aborted at any request included; no disable request names
\* an option whose value is in the desired list or the static tail.
C17_NoOutage ==
    /\ \A i \in KeptOptions :
          ~OptionOf(remote, start_remote[i].optionId).isDisabled
    /\ \A i \in 1..Len(calls) :
          IsDisableCall(calls[i].request) =>
              ValueOfId(calls[i].request.optionId) \notin Desired

\* a run aborted after it disabled an option, with a desired option that was
\* enabled before the run
C17_Witness ==
    /\ pc = "failed"
    /\ KeptOptions # {}
    /\ \E i \in 1..Len(calls) : IsDisableCall(calls[i].request) /\ calls[i].ok

---------------------------------------------------------------------------
(* C18 *)

\* the option values of list r are pairwise distinct
DistinctValues(r) ==
    \A i, j \in 1..Len(r) : i # j => r[i].value # r[j].value

AddCalls == SelectSeq(calls, LAMBDA c : IsAddCall(c.request))

\* the options that were disabled before the run, carry a desired value and
\* are the first of the list with it
Returning ==
    {i \in 1..Len(start_remote) :
        /\ start_remote[i].isDisabled
        /\ start_remote[i].value \in Desired
        /\ \A j \in 1..(i - 1) : start_remote[j].value # start_remote[i].value}

\* C18 (no duplicate creation): no add request carries a value that an
\* option of the remote list, enabled or disabled, has when it is posted:
\* none that the list had before the run and none of an earlier add request;
\* hence option values that are pairwise distinct before the run are pairwise
\* distinct in every state of the run; and once the enable phase of a run
\* without --dry-run has ended, a disabled option with a desired value is
\* enabled under its own optionId, and no option was added for its value.
C18_NoDuplicate ==
    /\ \A i \in 1..Len(AddCalls) :
          /\ AddCalls[i].request.value \notin Current
          /\ \A j \in 1..(i - 1) :
                AddCalls[j].request.value # AddCalls[i].request.value
    /\ DistinctValues(start_remote) => DistinctValues(remote)
    /\ (~dry_run /\ pc \in {"refetch", "static_lookup", "move", "done"}) =>
          \A i \in Returning :
              /\ ~OptionOf(remote, start_remote[i].optionId).isDisabled
              /\ \A k \in 1..Len(AddCalls) :
                    AddCalls[k].request.value # start_remote[i].value

\* a finished run that added an option and re-enabled another one, over a
\* list of distinct values
C18_Witness ==
    /\ RealSuccess
    /\ DistinctValues(start_remote)
    /\ Returning # {}
    /\ AddCalls # <<>>

---------------------------------------------------------------------------
(* C19 *)

\* C19 (uniqueness among enabled options): if no two enabled options carry
\* the same value before the run (disabled options may repeat a value), then
\* no two enabled options carry the same value after a successful run without
\* --dry-run.
C19_EnabledUnique ==
    (RealSuccess /\ UniqueAmongEnabled(start_remote)) => UniqueAmongEnabled(remote)

====
